---- MODULE Spec2Model ----
(***************************************************************************)
(* State-machine model of the blog application in src/app.py: the users   *)
(* and posts tables, the client-held session, and one action per route.   *)
(* A request is handled in one step (before_request, the view, the        *)
(* response); the app-context teardown is the step that follows it.       *)
(*                                                                         *)
(* Text values are sequences of one-character strings, so that strip(),   *)
(* lower() and len() are computed rather than assumed.  The created_at    *)
(* column and the order of the home list are left out: a row is its id,   *)
(* owner, title and body, and a list of rows is the set of them.          *)
(***************************************************************************)
EXTENDS Integers, Sequences, FiniteSets, TLC

VARIABLES users, posts, session, req, resp, g_user, lastAuth

vars == <<users, posts, session, req, resp, g_user, lastAuth>>

(***************************************************************************)
(* Bounds of the model.                                                    *)
(***************************************************************************)
\* Row ids the posts table may use (the three seeded posts included).
MaxPosts == 3
\* Flashed messages a session may carry between two rendered pages.
MaxFlashes == 1

(***************************************************************************)
(* Program constants.                                                      *)
(***************************************************************************)
\* g.user = None / session.get("user_id") is None; row ids start at 1.
NoUser == 0
\* app.py:196  len(password) < 6
MinPasswordLen == 6
PASSWORD_HASH_METHOD == "pbkdf2:sha256"

(***************************************************************************)
(* Text: str.strip(), str.lower(), truthiness.                             *)
(***************************************************************************)
Whitespace == {" ", "\t", "\n"}

LowerMap ==
  [A |-> "a", B |-> "b", C |-> "c", D |-> "d", E |-> "e", F |-> "f", G |-> "g",
   H |-> "h", I |-> "i", J |-> "j", K |-> "k", L |-> "l", M |-> "m", N |-> "n",
   O |-> "o", P |-> "p", Q |-> "q", R |-> "r", S |-> "s", T |-> "t", U |-> "u",
   V |-> "v", W |-> "w", X |-> "x", Y |-> "y", Z |-> "z"]

LowerChar(c) == IF c \in DOMAIN LowerMap THEN LowerMap[c] ELSE c

\* str.lower()
RECURSIVE lower(_)
lower(s) ==
  IF s = <<>> THEN <<>> ELSE <<LowerChar(Head(s))>> \o lower(Tail(s))

RECURSIVE lstrip(_)
lstrip(s) ==
  IF s # <<>> /\ Head(s) \in Whitespace THEN lstrip(Tail(s)) ELSE s

RECURSIVE rstrip(_)
rstrip(s) ==
  IF s # <<>> /\ s[Len(s)] \in Whitespace
  THEN rstrip(SubSeq(s, 1, Len(s) - 1))
  ELSE s

\* Variant: the text is taken as submitted.
strip_none(s) == s

\* str.strip()
strip(s) == rstrip(lstrip(s))

(***************************************************************************)
(* werkzeug.security: a salted one-way hash.  The digest is modelled as    *)
(* the ideal hash of (salt, password): equal exactly when both are equal.  *)
(***************************************************************************)
Salts == {"s1"}

generate_password_hash(password, salt) ==
  [method |-> PASSWORD_HASH_METHOD, salt |-> salt, digest |-> <<salt>> \o password]

check_password_hash(pwhash, password) ==
  pwhash.digest = <<pwhash.salt>> \o password

(***************************************************************************)
(* Text values the requests are drawn from.                                *)
(***************************************************************************)
S_aurelia == <<"a", "u", "r", "e", "l", "i", "a">>
E_aurelia == S_aurelia \o <<"@", "e", "x", "a", "m", "p", "l", "e", ".", "c", "o", "m">>
P_luxepass == <<"l", "u", "x", "e", "p", "a", "s", "s">>

Usernames == { <<>>, <<" ", "a", "l", " ">>, S_aurelia }

Emails == { <<" ">>, <<"A", "@", "X", " ">>, <<"A">> \o Tail(E_aurelia) }

LoginEmails == { <<" ", "a", "@", "X">>, <<"q", "@", "x">>, E_aurelia }

Passwords ==
  { <<>>,
    <<"1", "2", "3", "4", "5">>,
    <<"1", "2", "3", "4", "5", "6">> }

LoginPasswords == { <<"1", "2", "3", "4", "5", "6">>, P_luxepass, <<>> }

Titles == { <<>>, <<" ", "\t">>, <<" ", "T", " ">> }

Bodies == { <<>>, <<"\n">>, <<"B", " ">> }

PostIds == 0..MaxPosts

(***************************************************************************)
(* Seed data (seed_data): one user and her three posts.                    *)
(***************************************************************************)
SeedUser ==
  [username |-> S_aurelia, email |-> E_aurelia,
   password_hash |-> generate_password_hash(P_luxepass, "s1")]

\* cursor.lastrowid of the seeded user: the first row of an empty table.
SeedUserId == 1

SeedPosts ==
  << [title |-> <<"P", "a", "r", "i", "s">>, body |-> <<"S", "e", "i", "n", "e">>],
     [title |-> <<"K", "y", "o", "t", "o">>, body |-> <<"t", "e", "a">>],
     [title |-> <<"S", "a", "n", "t", "o", "r", "i", "n", "i">>, body |-> <<"s", "u", "n">>] >>

(***************************************************************************)
(* The session (a dict in a signed client-side cookie) and flash().        *)
(***************************************************************************)
\* session.clear()
EmptySession == [user_id |-> NoUser, _flashes |-> <<>>]

Msg(category, text, arg) == [category |-> category, text |-> text, arg |-> arg]

\* flash(message, category): appends to session["_flashes"]
flash(sess, m) == [sess EXCEPT !._flashes = Append(@, m)]

(***************************************************************************)
(* Requests, paths and responses.                                          *)
(***************************************************************************)
NoForm == [username |-> <<>>, email |-> <<>>, password |-> <<>>,
           title |-> <<>>, body |-> <<>>]

Path(endpoint, post_id) == [endpoint |-> endpoint, post_id |-> post_id]

NoPath == Path("", 0)

\* The request as the response's reader knows it: the route, the method and
\* the post id of the URL.
NoReq == [route |-> "none", method |-> "", post_id |-> 0]

Req(route, method, post_id) ==
  [route |-> route, method |-> method, post_id |-> post_id]

\* url_for(endpoint, post_id=..., next=...)
url_for(endpoint, post_id, next) ==
  [endpoint |-> endpoint, post_id |-> post_id, next |-> next]

NoLocation == url_for("", 0, NoPath)

NoResp == [status |-> 0, location |-> NoLocation, template |-> "",
           rows |-> {}, messages |-> <<>>]

\* render_template(): a 200 page; the page shows the pending flashed
\* messages, which are one-shot and leave the session.
render_template(template, rows, sess) ==
  [session |-> [sess EXCEPT !._flashes = <<>>],
   resp |-> [status |-> 200, location |-> NoLocation, template |-> template,
             rows |-> rows, messages |-> sess._flashes]]

\* redirect(location)
redirect(location, sess) ==
  [session |-> sess,
   resp |-> [status |-> 302, location |-> location, template |-> "",
             rows |-> {}, messages |-> <<>>]]

\* abort(code), and 500 for an uncaught exception: the session is untouched
error_response(code) ==
  [session |-> session,
   resp |-> [status |-> code, location |-> NoLocation, template |-> "",
             rows |-> {}, messages |-> <<>>]]

Out(u, p, sr) ==
  [users |-> u, posts |-> p, session |-> sr.session, resp |-> sr.resp]

(***************************************************************************)
(* before_request and the login guard.                                     *)
(***************************************************************************)
\* Variant: the session's user id is trusted without the SELECT.
load_logged_in_user_nolookup == session.user_id

\* g.user: the id of the row the session's user_id selects, or None
load_logged_in_user ==
  LET user_id == session.user_id IN
  IF user_id = NoUser THEN NoUser
  ELSE IF user_id \in DOMAIN users THEN user_id ELSE NoUser

\* Variant: the view is not guarded.
login_required_off(path, view) == view

\* wrapped_view: `view` is evaluated only when g.user is not None
login_required(path, view) ==
  IF load_logged_in_user = NoUser
  THEN Out(users, posts,
           redirect(url_for("login", 0, path),
                    flash(session, Msg("warning", "login_required", <<>>))))
  ELSE view

(***************************************************************************)
(* Post lookup.                                                            *)
(***************************************************************************)
\* SELECT ... FROM posts JOIN users ON posts.user_id = users.id
PostRow(id) ==
  [id |-> id, title |-> posts[id].title, body |-> posts[id].body,
   user_id |-> posts[id].user_id,
   username |-> users[posts[id].user_id].username]

JoinedPostIds == {id \in DOMAIN posts : posts[id].user_id \in DOMAIN users}

\* Variant: the owner is never checked.
get_post_nocheck(post_id, check_author) ==
  IF post_id \notin JoinedPostIds THEN [code |-> 404, rows |-> {}]
  ELSE [code |-> 0, rows |-> {PostRow(post_id)}]

\* get_post: code 0 and the row, or the abort code (500: g.user["id"] on None)
get_post(post_id, check_author) ==
  IF post_id \notin JoinedPostIds THEN [code |-> 404, rows |-> {}]
  ELSE IF check_author /\ load_logged_in_user = NoUser
       THEN [code |-> 500, rows |-> {}]
  ELSE IF check_author /\ posts[post_id].user_id # load_logged_in_user
       THEN [code |-> 403, rows |-> {}]
  ELSE [code |-> 0, rows |-> {PostRow(post_id)}]

\* SELECT ... ORDER BY posts.created_at DESC, as the set of rows selected
index_rows == {PostRow(id) : id \in JoinedPostIds}

(***************************************************************************)
(* Row ids: unique and system-assigned.  NewUserIds and NewPostIds are the *)
(* ids an INSERT may return as lastrowid.  SQLite gives a new row an id    *)
(* above every id in the table: the next one, or, once rows were deleted   *)
(* and their ids are not reused, a later one.  An id past the model's      *)
(* bound stands for a table the model has no room for.                     *)
(***************************************************************************)
MaxRowId(table) ==
  IF DOMAIN table = {} THEN 0
  ELSE CHOOSE i \in DOMAIN table : \A j \in DOMAIN table : i >= j

\* users rows are never deleted: the id is the next one.  (The usernames a
\* registration may carry bound the table.)
NewUserIds == {MaxRowId(users) + 1}

\* posts rows are deleted: the next id, or a later one
NewPostIds ==
  IF MaxRowId(posts) < MaxPosts THEN (MaxRowId(posts) + 1)..MaxPosts
  ELSE {MaxPosts + 1}

(***************************************************************************)
(* The statements that write.                                              *)
(***************************************************************************)
\* UNIQUE (username), UNIQUE (email): sqlite3.IntegrityError
IntegrityError(username, email) ==
  \E id \in DOMAIN users :
     users[id].username = username \/ users[id].email = email

\* INSERT INTO users (username, email, password_hash)
insert_user(rowid, username, email, pwhash) ==
  (rowid :> [username |-> username, email |-> email, password_hash |-> pwhash])
    @@ users

\* INSERT INTO posts (user_id, title, body)
insert_post(rowid, user_id, title, body) ==
  (rowid :> [user_id |-> user_id, title |-> title, body |-> body]) @@ posts

\* Variant: the UPDATE sets the title only.
update_post_titleonly(post_id, title, body) ==
  [id \in DOMAIN posts |->
     IF id = post_id THEN [posts[id] EXCEPT !.title = title] ELSE posts[id]]

\* UPDATE posts SET title = ?, body = ? WHERE id = ?
update_post(post_id, title, body) ==
  [id \in DOMAIN posts |->
     IF id = post_id THEN [posts[id] EXCEPT !.title = title, !.body = body]
     ELSE posts[id]]

\* DELETE FROM posts WHERE id = ?
delete_post_row(post_id) ==
  [id \in DOMAIN posts \ {post_id} |-> posts[id]]

(***************************************************************************)
(* Views.  Each yields the tables, the session and the response.           *)
(***************************************************************************)
\* Variant: the email is trimmed but keeps its letter case.
NormalizeEmail_nolower(raw) == strip(raw)

\* request.form.get("email", "").strip().lower()
NormalizeEmail(raw) == lower(strip(raw))

\* Variant: the length test is off by one (<= instead of <).
register_error_offbyone(username, email, password) ==
  IF username = <<>> THEN "username_required"
  ELSE IF email = <<>> THEN "email_required"
  ELSE IF password = <<>> \/ Len(password) <= MinPasswordLen
       THEN "password_too_short"
  ELSE ""

\* the validation chain of register(); "" for error is None
register_error(username, email, password) ==
  IF username = <<>> THEN "username_required"
  ELSE IF email = <<>> THEN "email_required"
  ELSE IF password = <<>> \/ Len(password) < MinPasswordLen
       THEN "password_too_short"
  ELSE ""

index == Out(users, posts, render_template("home.html", index_rows, session))

about == Out(users, posts, render_template("about.html", {}, session))

register(method, form, salt, rowid) ==
  IF method = "POST"
  THEN LET username == strip(form.username)
           email == NormalizeEmail(form.email)
           password == form.password
           error == register_error(username, email, password)
       IN IF error = ""
          THEN IF ~IntegrityError(username, email)
               THEN Out(insert_user(rowid, username, email,
                                    generate_password_hash(password, salt)),
                        posts,
                        redirect(url_for("login", 0, NoPath),
                                 flash(session, Msg("success", "registered", <<>>))))
               ELSE Out(users, posts,
                        render_template("register.html", {},
                                        flash(session, Msg("danger", "conflict", <<>>))))
          ELSE Out(users, posts,
                   render_template("register.html", {},
                                   flash(session, Msg("danger", error, <<>>))))
  ELSE Out(users, posts, render_template("register.html", {}, session))

\* SELECT ... FROM users WHERE email = ? ... fetchone(): the first row
user_by_email(email) ==
  LET found == {id \in DOMAIN users : users[id].email = email} IN
  IF found = {} THEN NoUser
  ELSE CHOOSE id \in found : \A other \in found : id <= other

\* Variant: the user id is added to the session as it is (no clear()).
login_session_additive(user_id) ==
  flash([session EXCEPT !.user_id = user_id],
        Msg("success", "welcome", users[user_id].username))

\* session.clear(); session["user_id"] = user["id"]; flash(welcome)
login_session(user_id) ==
  flash([EmptySession EXCEPT !.user_id = user_id],
        Msg("success", "welcome", users[user_id].username))

\* Variant: an unknown email gets a message of its own.
login_enumerating(method, form, next) ==
  IF method = "POST"
  THEN LET email == NormalizeEmail(form.email)
           password == form.password
           user == user_by_email(email)
       IN IF user # NoUser
             /\ check_password_hash(users[user].password_hash, password)
          THEN Out(users, posts,
                   redirect(IF next # NoPath
                            THEN url_for(next.endpoint, next.post_id, NoPath)
                            ELSE url_for("index", 0, NoPath),
                            login_session(user)))
          ELSE Out(users, posts,
                   render_template("login.html", {},
                                   flash(session,
                                         Msg("danger",
                                             IF user = NoUser THEN "unknown_email"
                                             ELSE "bad_credentials", <<>>))))
  ELSE Out(users, posts, render_template("login.html", {}, session))

login(method, form, next) ==
  IF method = "POST"
  THEN LET email == NormalizeEmail(form.email)
           password == form.password
           user == user_by_email(email)
       IN IF user # NoUser
             /\ check_password_hash(users[user].password_hash, password)
          THEN Out(users, posts,
                   redirect(IF next # NoPath
                            THEN url_for(next.endpoint, next.post_id, NoPath)
                            ELSE url_for("index", 0, NoPath),
                            login_session(user)))
          ELSE Out(users, posts,
                   render_template("login.html", {},
                                   flash(session,
                                         Msg("danger", "bad_credentials", <<>>))))
  ELSE Out(users, posts, render_template("login.html", {}, session))

\* Variant: the message is flashed but the session is not cleared.
logout_session_noclear == flash(session, Msg("info", "logged_out", <<>>))

\* session.clear(); flash(...)
logout_session == flash(EmptySession, Msg("info", "logged_out", <<>>))

logout == Out(users, posts, redirect(url_for("index", 0, NoPath), logout_session))

create_post(method, form, rowid) ==
  login_required(Path("create_post", 0),
    IF method = "POST"
    THEN LET title == strip(form.title)
             body == strip(form.body)
         IN IF title = <<>>
            THEN Out(users, posts,
                     render_template("new_post.html", {},
                                     flash(session, Msg("danger", "title_required", <<>>))))
            ELSE IF body = <<>>
            THEN Out(users, posts,
                     render_template("new_post.html", {},
                                     flash(session, Msg("danger", "body_required", <<>>))))
            ELSE Out(users,
                     insert_post(rowid, load_logged_in_user, title, body),
                     redirect(url_for("post_detail", rowid, NoPath),
                              flash(session, Msg("success", "published", <<>>))))
    ELSE Out(users, posts, render_template("new_post.html", {}, session)))

post_detail(post_id) ==
  LET post == get_post(post_id, FALSE) IN
  IF post.code # 0 THEN Out(users, posts, error_response(post.code))
  ELSE Out(users, posts, render_template("post_detail.html", post.rows, session))

edit_post(method, post_id, form) ==
  login_required(Path("edit_post", post_id),
    LET post == get_post(post_id, TRUE) IN
    IF post.code # 0 THEN Out(users, posts, error_response(post.code))
    ELSE IF method = "POST"
    THEN LET title == strip(form.title)
             body == strip(form.body)
         IN IF title = <<>>
            THEN Out(users, posts,
                     render_template("edit_post.html", post.rows,
                                     flash(session, Msg("danger", "title_required", <<>>))))
            ELSE IF body = <<>>
            THEN Out(users, posts,
                     render_template("edit_post.html", post.rows,
                                     flash(session, Msg("danger", "body_required", <<>>))))
            ELSE Out(users,
                     update_post(post_id, title, body),
                     redirect(url_for("post_detail", post_id, NoPath),
                              flash(session, Msg("success", "updated", <<>>))))
    ELSE Out(users, posts, render_template("edit_post.html", post.rows, session)))

delete_post(post_id) ==
  login_required(Path("delete_post", post_id),
    LET post == get_post(post_id, TRUE) IN
    IF post.code # 0 THEN Out(users, posts, error_response(post.code))
    ELSE Out(users,
             delete_post_row(post_id),
             redirect(url_for("index", 0, NoPath),
                      flash(session, Msg("info", "deleted", <<>>)))))

(***************************************************************************)
(* The state machine.                                                      *)
(***************************************************************************)
\* with app.app_context(): init_db(); seed_data()  -- on an empty database.
\* The session cookie is held by the client and signed with the fixed
\* SECRET_KEY, so it may predate the database: it carries no user id, or a
\* user id that has no row now.
Init ==
  /\ \E salt \in Salts :
       users = (SeedUserId :> [SeedUser EXCEPT !.password_hash =
                                  generate_password_hash(P_luxepass, salt)])
  /\ posts = [i \in 1..Len(SeedPosts) |->
                [user_id |-> SeedUserId, title |-> SeedPosts[i].title,
                 body |-> SeedPosts[i].body]]
  /\ \E uid \in {NoUser, SeedUserId + 1} :
       session = [EmptySession EXCEPT !.user_id = uid]
  /\ req = NoReq
  /\ resp = NoResp
  /\ g_user = NoUser
  /\ lastAuth = "none"

\* One request: load_logged_in_user, the view, the response.  lastAuth is a
\* history variable: the latest of a successful login and a logout.
Handle(rq, out) ==
  /\ req = NoReq
  /\ DOMAIN out.posts \subseteq 1..MaxPosts
  /\ Len(out.session._flashes) <= MaxFlashes
  /\ users' = out.users
  /\ posts' = out.posts
  /\ session' = out.session
  /\ req' = rq
  /\ resp' = out.resp
  /\ g_user' = load_logged_in_user
  /\ lastAuth' = IF rq.route = "login" /\ out.resp.status = 302 THEN "login"
                 ELSE IF rq.route = "logout" THEN "logout"
                 ELSE lastAuth

Index == Handle(Req("index", "GET", 0), index)

About == Handle(Req("about", "GET", 0), about)

RegisterGet ==
  \E salt \in Salts :
    Handle(Req("register", "GET", 0), register("GET", NoForm, salt, 0))

RegisterPost ==
  \E username \in Usernames, email \in Emails, password \in Passwords,
     salt \in Salts, rowid \in NewUserIds :
    LET form == [NoForm EXCEPT !.username = username, !.email = email,
                               !.password = password]
    IN Handle(Req("register", "POST", 0),
              register("POST", form, salt, rowid))

NextPaths == {NoPath, Path("create_post", 0)}

LoginGet == Handle(Req("login", "GET", 0), login("GET", NoForm, NoPath))

LoginPost ==
  \E email \in LoginEmails, password \in LoginPasswords, next \in NextPaths :
    LET form == [NoForm EXCEPT !.email = email, !.password = password]
    IN Handle(Req("login", "POST", 0), login("POST", form, next))

Logout == Handle(Req("logout", "GET", 0), logout)

CreatePostGet ==
  Handle(Req("create_post", "GET", 0),
         create_post("GET", NoForm, 0))

CreatePostPost ==
  \E title \in Titles, body \in Bodies, rowid \in NewPostIds :
    LET form == [NoForm EXCEPT !.title = title, !.body = body]
    IN Handle(Req("create_post", "POST", 0),
              create_post("POST", form, rowid))

PostDetail ==
  \E post_id \in PostIds :
    Handle(Req("post_detail", "GET", post_id),
           post_detail(post_id))

EditPostGet ==
  \E post_id \in PostIds :
    Handle(Req("edit_post", "GET", post_id),
           edit_post("GET", post_id, NoForm))

EditPostPost ==
  \E post_id \in PostIds, title \in Titles, body \in Bodies :
    LET form == [NoForm EXCEPT !.title = title, !.body = body]
    IN Handle(Req("edit_post", "POST", post_id),
              edit_post("POST", post_id, form))

DeletePost ==
  \E post_id \in PostIds :
    Handle(Req("delete_post", "POST", post_id),
           delete_post(post_id))

\* teardown_appcontext: the request's g (g.db, g.user) and its response go
close_db ==
  /\ req # NoReq
  /\ req' = NoReq
  /\ resp' = NoResp
  /\ g_user' = NoUser
  /\ UNCHANGED <<users, posts, session, lastAuth>>

Next ==
  \/ Index
  \/ About
  \/ RegisterGet
  \/ RegisterPost
  \/ LoginGet
  \/ LoginPost
  \/ Logout
  \/ CreatePostGet
  \/ CreatePostPost
  \/ PostDetail
  \/ EditPostGet
  \/ EditPostPost
  \/ DeletePost
  \/ close_db

Spec == Init /\ [][Next]_vars

(***************************************************************************)
(* Vocabulary of the properties.                                           *)
(***************************************************************************)
\* No request is being handled: the states a request starts from.
Idle == req = NoReq

\* The session resolves to Anonymous: it carries no user id, or one that
\* matches no stored user.
Anonymous == session.user_id = NoUser \/ session.user_id \notin DOMAIN users

PostForms == {[NoForm EXCEPT !.title = t, !.body = b] : t \in Titles, b \in Bodies}

RegisterForms ==
  {[NoForm EXCEPT !.username = u, !.email = e, !.password = p] :
     u \in Usernames, e \in Emails, p \in Passwords}

LoginForms ==
  {[NoForm EXCEPT !.email = e, !.password = p] :
     e \in LoginEmails, p \in LoginPasswords}

\* Every result an edit or a delete request for post_id can have now.
OwnerOnlyOutcomes(post_id) ==
  {edit_post("GET", post_id, NoForm), delete_post(post_id)}
    \cup {edit_post("POST", post_id, f) : f \in PostForms}

\* The guard's answer for a request of `path`: a redirect to login that
\* carries next = path; nothing else changes but the flashed warning.
IsLoginRedirect(out, path) ==
  /\ out.resp.status = 302
  /\ out.resp.location = [endpoint |-> "login", post_id |-> 0, next |-> path]
  /\ out.users = users
  /\ out.posts = posts
  /\ out.session.user_id = session.user_id

\* A text that is empty once surrounding whitespace is trimmed.
IsBlank(s) == \A i \in 1..Len(s) : s[i] \in Whitespace

(***************************************************************************)
(* C1.  An edit (GET or POST) or a delete of an existing post by an        *)
(* authenticated user who is not its owner is answered 403 and leaves the  *)
(* posts as they were, while the same user's public detail view of that    *)
(* post succeeds; and a step that changes or removes a post is a request   *)
(* whose resolved identity is the post's owner.                            *)
(***************************************************************************)
C1_NonOwner ==
  Idle =>
    \A post_id \in DOMAIN posts :
      (~Anonymous /\ posts[post_id].user_id # session.user_id) =>
        /\ \A out \in OwnerOnlyOutcomes(post_id) :
             /\ out.resp.status = 403
             /\ out.posts = posts
             /\ out.users = users
        /\ post_detail(post_id).resp.status = 200
        /\ post_detail(post_id).resp.rows = {PostRow(post_id)}

C1_OnlyOwnerWrites ==
  \A post_id \in DOMAIN posts :
    (post_id \notin DOMAIN posts' \/ posts'[post_id] # posts[post_id]) =>
      /\ g_user' # NoUser
      /\ g_user' = posts[post_id].user_id
      /\ req'.route \in {"edit_post", "delete_post"}
      /\ req'.post_id = post_id

C1_ForbiddenForNonOwner == [](C1_NonOwner) /\ [][C1_OnlyOwnerWrites]_vars

\* A non-owner's edit or delete was just refused; the post is still there.
C1_Witness ==
  /\ req.route \in {"edit_post", "delete_post"}
  /\ req.method = "POST"
  /\ resp.status = 403
  /\ g_user # NoUser
  /\ req.post_id \in DOMAIN posts
  /\ posts[req.post_id].user_id # g_user

(***************************************************************************)
(* C2.  A request to a protected route whose session resolves to Anonymous *)
(* (no user id, or a user id that matches no stored user) is answered by a *)
(* redirect to login carrying next = the requested path; the wrapped view  *)
(* does not run, no user or post changes, and the request does not fail.   *)
(***************************************************************************)
C2_AnonymousRedirected ==
  (Idle /\ Anonymous) =>
    /\ \A f \in PostForms \cup {NoForm}, m \in {"GET", "POST"},
          rowid \in NewPostIds :
         LET out == create_post(m, f, rowid) IN
         /\ IsLoginRedirect(out, Path("create_post", 0))
         /\ out.session._flashes =
              Append(session._flashes, Msg("warning", "login_required", <<>>))
    /\ \A post_id \in PostIds, f \in PostForms \cup {NoForm}, m \in {"GET", "POST"} :
         LET out == edit_post(m, post_id, f) IN
         /\ IsLoginRedirect(out, Path("edit_post", post_id))
         /\ out.session._flashes =
              Append(session._flashes, Msg("warning", "login_required", <<>>))
    /\ \A post_id \in PostIds :
         LET out == delete_post(post_id) IN
         /\ IsLoginRedirect(out, Path("delete_post", post_id))
         /\ out.session._flashes =
              Append(session._flashes, Msg("warning", "login_required", <<>>))

\* A session whose user id matches no stored user was just redirected.
C2_Witness ==
  /\ req = Req("create_post", "POST", 0)
  /\ session.user_id # NoUser
  /\ session.user_id \notin DOMAIN users
  /\ resp.status = 302
  /\ resp.location = url_for("login", 0, Path("create_post", 0))

(***************************************************************************)
(* C10.  On edit and delete the checks run in the order authentication,    *)
(* existence, ownership: Anonymous is redirected to login even for an      *)
(* unknown post id; an authenticated request for an unknown id is answered *)
(* 404, never 403; a non-owner is answered 403; the owner-enforcing lookup *)
(* is never evaluated for Anonymous (no 500 from g.user["id"]); and the    *)
(* posts change only when all three checks passed.                         *)
(***************************************************************************)
C10_CheckOrder ==
  Idle =>
    \A post_id \in PostIds :
      \A out \in OwnerOnlyOutcomes(post_id) :
        /\ out.resp.status # 500
        /\ Anonymous => out.resp.status = 302 /\ out.resp.location.endpoint = "login"
        /\ (~Anonymous /\ post_id \notin DOMAIN posts) => out.resp.status = 404
        /\ (~Anonymous /\ post_id \in DOMAIN posts
              /\ posts[post_id].user_id # session.user_id) => out.resp.status = 403
        /\ out.posts # posts =>
             /\ ~Anonymous
             /\ post_id \in DOMAIN posts
             /\ posts[post_id].user_id = session.user_id

\* Anonymous was just redirected to login for a post id that does not exist.
C10_Witness ==
  /\ req.route \in {"edit_post", "delete_post"}
  /\ g_user = NoUser
  /\ req.post_id \notin DOMAIN posts
  /\ resp.status = 302
  /\ resp.location.endpoint = "login"

(***************************************************************************)
(* C3.  A request to a protected route that follows a successful login     *)
(* with no logout in between passes the guard and runs the view; one that  *)
(* follows a logout with no successful login in between is redirected to   *)
(* login.  (lastAuth records the latest of the two events.)                *)
(***************************************************************************)
ProtectedRequests ==
  {[path |-> Path("create_post", 0), out |-> create_post(m, f, rowid)] :
      m \in {"GET", "POST"}, f \in PostForms, rowid \in NewPostIds}
  \cup {[path |-> Path("edit_post", id), out |-> edit_post(m, id, f)] :
          m \in {"GET", "POST"}, id \in PostIds, f \in PostForms}
  \cup {[path |-> Path("delete_post", id), out |-> delete_post(id)] : id \in PostIds}

C3_LoginThenLogout ==
  Idle =>
    /\ lastAuth = "login" =>
         /\ \A r \in ProtectedRequests :
              /\ r.out.resp.location.endpoint # "login"
              /\ r.out.resp.status \in {200, 302, 403, 404}
         /\ create_post("GET", NoForm, 0).resp.template = "new_post.html"
    /\ lastAuth = "logout" =>
         \A r \in ProtectedRequests : IsLoginRedirect(r.out, r.path)

\* After a logout, a protected route was just redirected to login.
C3_Witness ==
  /\ lastAuth = "logout"
  /\ req = Req("create_post", "GET", 0)
  /\ resp.status = 302
  /\ resp.location = url_for("login", 0, Path("create_post", 0))

(***************************************************************************)
(* C4.  A login POST with a registered email and a wrong password, and one *)
(* with an unknown email and any password, have the same outcome: the      *)
(* login form with the same generic message and no redirect, the session's *)
(* identity left as it was.                                                *)
(***************************************************************************)
Last(seq) == seq[Len(seq)]

RegisteredWrongPassword(f) ==
  \E id \in DOMAIN users :
     /\ users[id].email = lower(strip(f.email))
     /\ users[id].password_hash.digest # <<users[id].password_hash.salt>> \o f.password

UnknownEmail(f) ==
  \A id \in DOMAIN users : users[id].email # lower(strip(f.email))

C4_SameFailure ==
  Idle =>
    \A f1, f2 \in LoginForms, next \in NextPaths :
      (RegisteredWrongPassword(f1) /\ UnknownEmail(f2)) =>
        LET out1 == login("POST", f1, next)
            out2 == login("POST", f2, next)
        IN /\ out1 = out2
           /\ out1.resp.status = 200
           /\ out1.resp.template = "login.html"
           /\ out1.resp.messages =
                Append(session._flashes, Msg("danger", "bad_credentials", <<>>))
           /\ out1.session.user_id = session.user_id
           /\ out1.users = users

\* A login just failed for a client that is logged in, and stays so.
C4_Witness ==
  /\ req = Req("login", "POST", 0)
  /\ resp.status = 200
  /\ resp.messages # <<>>
  /\ Last(resp.messages).text = "bad_credentials"
  /\ g_user # NoUser
  /\ session.user_id = g_user
  /\ Cardinality(DOMAIN users) > 1

(***************************************************************************)
(* C5.  A registration whose password has fewer than 6 characters fails    *)
(* with a validation error and creates no user, whatever the username and  *)
(* the email; with exactly 6 characters (and a username and an email that  *)
(* are not empty and not in use) it succeeds.                              *)
(***************************************************************************)
ValidationErrors == {"username_required", "email_required", "password_too_short"}

InUse(f) ==
  \E id \in DOMAIN users :
     \/ users[id].username = strip(f.username)
     \/ lower(strip(users[id].email)) = lower(strip(f.email))

C5_PasswordLength ==
  Idle =>
    \A f \in RegisterForms, salt \in Salts, rowid \in NewUserIds :
      LET out == register("POST", f, salt, rowid) IN
      /\ Len(f.password) < 6 =>
           /\ out.users = users
           /\ out.resp.status = 200
           /\ out.resp.template = "register.html"
           /\ Last(out.resp.messages).category = "danger"
           /\ Last(out.resp.messages).text \in ValidationErrors
      /\ (Len(f.password) = 6 /\ ~IsBlank(f.username) /\ ~IsBlank(f.email)
            /\ ~InUse(f)) =>
           /\ out.resp.status = 302
           /\ out.resp.location = url_for("login", 0, NoPath)
           /\ DOMAIN out.users = DOMAIN users \cup {rowid}
           /\ rowid \notin DOMAIN users
           /\ \A id \in DOMAIN users : out.users[id] = users[id]
           /\ out.users[rowid].username = strip(f.username)
           /\ out.users[rowid].password_hash.digest = <<salt>> \o f.password

\* A too-short password was just refused, after a 6-character one was taken.
C5_Witness ==
  /\ req = Req("register", "POST", 0)
  /\ resp.status = 200
  /\ resp.messages # <<>>
  /\ Last(resp.messages).text = "password_too_short"
  /\ \E id \in DOMAIN users : Len(users[id].password_hash.digest) = 1 + 6

(***************************************************************************)
(* C6.  No two users share a username, and no two share an email compared  *)
(* after trimming and lowercasing; a registration whose username exists or *)
(* whose email equals an existing one up to letter case is refused with    *)
(* the conflict message on the form, and the users stay as they were.      *)
(***************************************************************************)
C6_UniqueUsers ==
  /\ \A i, j \in DOMAIN users :
       i # j =>
         /\ users[i].username # users[j].username
         /\ lower(strip(users[i].email)) # lower(strip(users[j].email))
  /\ Idle =>
       \A f \in RegisterForms, salt \in Salts, rowid \in NewUserIds :
         (~IsBlank(f.username) /\ ~IsBlank(f.email) /\ Len(f.password) >= 6
            /\ InUse(f)) =>
           LET out == register("POST", f, salt, rowid) IN
           /\ out.users = users
           /\ out.resp.status = 200
           /\ out.resp.template = "register.html"
           /\ Last(out.resp.messages) = Msg("danger", "conflict", <<>>)

\* A registration was just refused as a conflict; two users exist.
C6_Witness ==
  /\ req = Req("register", "POST", 0)
  /\ resp.status = 200
  /\ resp.messages # <<>>
  /\ Last(resp.messages).text = "conflict"
  /\ Cardinality(DOMAIN users) = 2

(***************************************************************************)
(* C7.  A create or edit submission whose title or body is empty once      *)
(* trimmed (whitespace-only included) is rejected: no post is added, the   *)
(* stored post is unchanged, and the form is rendered again instead of a   *)
(* redirect to the detail page.                                            *)
(***************************************************************************)
C7_BlankRejected ==
  Idle =>
    \A f \in PostForms :
      (IsBlank(f.title) \/ IsBlank(f.body)) =>
        /\ \A rowid \in NewPostIds :
             LET out == create_post("POST", f, rowid) IN
             /\ out.posts = posts
             /\ out.resp.location.endpoint # "post_detail"
             /\ ~Anonymous =>
                  /\ out.resp.status = 200
                  /\ out.resp.template = "new_post.html"
                  /\ Last(out.resp.messages).category = "danger"
        /\ \A post_id \in PostIds :
             LET out == edit_post("POST", post_id, f) IN
             /\ out.posts = posts
             /\ out.resp.location.endpoint # "post_detail"
             /\ (~Anonymous /\ post_id \in DOMAIN posts
                   /\ posts[post_id].user_id = session.user_id) =>
                  /\ out.resp.status = 200
                  /\ out.resp.template = "edit_post.html"
                  /\ out.resp.rows = {PostRow(post_id)}
                  /\ Last(out.resp.messages).category = "danger"

\* The owner's edit with an empty title or body was just rejected.
C7_Witness ==
  /\ req.route = "edit_post"
  /\ req.method = "POST"
  /\ resp.status = 200
  /\ resp.template = "edit_post.html"
  /\ resp.messages # <<>>
  /\ Last(resp.messages).text \in {"title_required", "body_required"}

(***************************************************************************)
(* C8.  A successful login as u, from any session state, leaves a session  *)
(* whose identity is u and that holds nothing of the session before it     *)
(* (only the greeting flashed by this login); a logout leaves a session    *)
(* with no identity and nothing of the session before it, so that the next *)
(* request resolves to Anonymous.                                          *)
(***************************************************************************)
C8_State ==
  Idle =>
    /\ \A f \in LoginForms, next \in NextPaths, u \in DOMAIN users :
         (/\ users[u].email = lower(strip(f.email))
          /\ users[u].password_hash.digest
               = <<users[u].password_hash.salt>> \o f.password) =>
           LET out == login("POST", f, next) IN
           /\ out.resp.status = 302
           /\ out.session =
                [user_id |-> u,
                 _flashes |-> <<Msg("success", "welcome", users[u].username)>>]
    /\ logout.session =
         [user_id |-> NoUser, _flashes |-> <<Msg("info", "logged_out", <<>>)>>]

C8_Step == req'.route = "logout" => (Anonymous /\ load_logged_in_user = NoUser)'

C8_SessionReset == [](C8_State) /\ [][C8_Step]_vars

\* A client authenticated as one user just logged in as another.
C8_Witness ==
  /\ req = Req("login", "POST", 0)
  /\ resp.status = 302
  /\ g_user # NoUser
  /\ session.user_id # NoUser
  /\ session.user_id # g_user

(***************************************************************************)
(* C9.  The life cycle of a post.  After a successful create with title T  *)
(* and body B the detail of the returned id shows T, B and the creator's   *)
(* username; after the owner's successful edit to T2/B2 the detail shows   *)
(* T2/B2 with the same owner; after the owner's delete the post is absent  *)
(* from the home list and its detail is 404; every other post is as it was.*)
(***************************************************************************)
\* This step is the request rq answered with out.
StepIs(rq, out) ==
  /\ req' = rq
  /\ users' = out.users
  /\ posts' = out.posts
  /\ session' = out.session
  /\ resp' = out.resp

OthersUnchanged(post_id) ==
  /\ DOMAIN posts' \ {post_id} = DOMAIN posts \ {post_id}
  /\ \A other \in DOMAIN posts \ {post_id} : posts'[other] = posts[other]

C9_Create ==
  (req' = Req("create_post", "POST", 0) /\ resp'.status = 302
     /\ resp'.location.endpoint = "post_detail") =>
  \A f \in PostForms, rowid \in NewPostIds :
    LET out == create_post("POST", f, rowid) IN
    StepIs(Req("create_post", "POST", 0), out) =>
      LET id == out.resp.location.post_id IN
      /\ id \notin DOMAIN posts
      /\ (post_detail(id).resp.status)' = 200
      /\ (post_detail(id).resp.rows)' =
           {[id |-> id, title |-> strip(f.title), body |-> strip(f.body),
             user_id |-> session.user_id,
             username |-> users[session.user_id].username]}
      /\ OthersUnchanged(id)

C9_Edit ==
  (req'.route = "edit_post" /\ req'.method = "POST" /\ resp'.status = 302
     /\ resp'.location.endpoint = "post_detail") =>
  \A f \in PostForms, post_id \in PostIds :
    LET out == edit_post("POST", post_id, f) IN
    StepIs(Req("edit_post", "POST", post_id), out) =>
      /\ out.resp.location.post_id = post_id
      /\ (post_detail(post_id).resp.status)' = 200
      /\ (post_detail(post_id).resp.rows)' =
           {[PostRow(post_id) EXCEPT !.title = strip(f.title),
                                     !.body = strip(f.body)]}
      /\ OthersUnchanged(post_id)

C9_Delete ==
  (req'.route = "delete_post" /\ resp'.status = 302
     /\ resp'.location.endpoint = "index") =>
  \A post_id \in PostIds :
    LET out == delete_post(post_id) IN
    StepIs(Req("delete_post", "POST", post_id), out) =>
      /\ post_id \in DOMAIN posts
      /\ index_rows' = index_rows \ {PostRow(post_id)}
      /\ \A row \in index_rows' : row.id # post_id
      /\ (post_detail(post_id).resp.status)' = 404
      /\ OthersUnchanged(post_id)

C9_LifeCycle == [][C9_Create /\ C9_Edit /\ C9_Delete]_vars

\* A post created by a registered user was just edited by its owner.
C9_Witness ==
  /\ req.route = "edit_post"
  /\ req.method = "POST"
  /\ resp.status = 302
  /\ resp.location = url_for("post_detail", req.post_id, NoPath)
  /\ posts[req.post_id].user_id # SeedUserId
  /\ posts[req.post_id].title = <<"T">>

====
